---- MODULE Spec2Model ----
(***************************************************************************)
(* Model of the wind-installation analysis programs.                       *)
(*                                                                         *)
(*   main.py   : CSV pipeline  load_and_clean_data ->                      *)
(*               generate_statistical_summary -> create_visualizations ->  *)
(*               create_map -> perform_analysis -> generate_report, then   *)
(*               the three artifact writes of the __main__ block.          *)
(*   script.py : literal eight-record table, analyze_wind_data (plots,     *)
(*               savefig, summary) and the printed summary lines.          *)
(*                                                                         *)
(* Representation.                                                         *)
(*   - A nullable value (pandas NaN / a Python name not yet bound) is a    *)
(*     sequence: <<>> is missing, <<v>> is the value v.                    *)
(*   - A CSV text cell is a sequence of tokens; "," is the separator       *)
(*     token, so "40.0,-95.0" is <<"40.0", ",", "-95.0">>.  An empty cell  *)
(*     is <<>>, which read_csv turns into NaN.                             *)
(*   - main.py capacities are integers in tenths of a MW, coordinates in   *)
(*     tenths of a degree; script.py capacities are integers in millionths *)
(*     of a MW (the literal has six decimals).  Floating-point rounding of *)
(*     sums is not modelled: sums are exact.                               *)
(*   - A raised Python exception ends the run: pc = "aborted" and failed   *)
(*     names the stage that raised.                                        *)
(*   - Library behaviour is modelled as the libraries document it: pandas   *)
(*     skips NaN in sum/mean/value_counts/groupby keys, scipy's pearsonr    *)
(*     raises below two observations and returns NaN on NaN or constant    *)
(*     input, folium rejects a NaN location.                               *)
(*   - Explored files have at least one record; the matplotlib style name  *)
(*     used by create_visualizations is taken to be available.             *)
(***************************************************************************)
EXTENDS Integers, Sequences, FiniteSets, TLC

VARIABLES prog, pc, failed, csv, df, stats_summary, fig, map_viz,
          analysis_results, report, summary, printed, artifacts

vars == <<prog, pc, failed, csv, df, stats_summary, fig, map_viz,
          analysis_results, report, summary, printed, artifacts>>

(***************************************************************************)
(* Bounds of the explored inputs.                                          *)
(***************************************************************************)
MaxRows == 3

MaxGeoRows == 3

MaxTopRows == 5

(***************************************************************************)
(* Generic helpers.                                                        *)
(***************************************************************************)
None == <<>>

Some(v) == <<v>>

IsNone(o) == o = <<>>

Range(s) == {s[i] : i \in 1..Len(s)}

Abs(n) == IF n < 0 THEN -n ELSE n

RECURSIVE SumSeq(_)
SumSeq(s) == IF s = <<>> THEN 0 ELSE Head(s) + SumSeq(Tail(s))

\* the values of a nullable column that are present, in row order
RECURSIVE DropNa(_)
DropNa(col) ==
    IF col = <<>> THEN <<>>
    ELSE IF IsNone(Head(col)) THEN DropNa(Tail(col))
         ELSE <<Head(col)[1]>> \o DropNa(Tail(col))

Column(rows, name) == [i \in 1..Len(rows) |-> rows[i][name]]

RECURSIVE SeqsUpTo(_, _)
SeqsUpTo(S, n) ==
    IF n = 0 THEN {<<>>}
    ELSE LET shorter == SeqsUpTo(S, n - 1)
         IN  shorter \cup {Append(s, x) : s \in {t \in shorter : Len(t) = n - 1}, x \in S}

NonEmptySeqs(S, n) == SeqsUpTo(S, n) \ {<<>>}

(***************************************************************************)
(* Text-to-number conversions.                                             *)
(***************************************************************************)
\* the numerals that occur in the explored CSV files, with their values
\* (capacity in tenths of a MW, coordinates in tenths of a degree)
NumeralValue ==
    ("0.5" :> 5) @@ ("1.5" :> 15) @@ ("40.0" :> 400) @@ ("-95.0" :> -950) @@ ("7" :> 70)

IsNumeral(tok) == tok \in DOMAIN NumeralValue

\* pd.to_numeric(cell, errors='coerce'): a cell that is one numeral token is its
\* value, anything else (empty cell, "N/A", free text) is NaN
ToNumericCoerce(cell) ==
    IF Len(cell) = 1 /\ IsNumeral(cell[1]) THEN Some(NumeralValue[cell[1]]) ELSE None

\* str.split(','): the fields between separator tokens; a field is the
\* sequence of tokens between two separators (empty when there is none)
RECURSIVE SplitFrom(_, _)
SplitFrom(cell, cur) ==
    IF cell = <<>> THEN <<cur>>
    ELSE IF Head(cell) = "," THEN <<cur>> \o SplitFrom(Tail(cell), <<>>)
         ELSE SplitFrom(Tail(cell), Append(cur, Head(cell)))

StrSplit(cell) == SplitFrom(cell, <<>>)

\* float(field) succeeds exactly on a field that is one numeral token
FloatParses(fld) == Len(fld) = 1 /\ IsNumeral(fld[1])

(***************************************************************************)
(* The explored CSV files.                                                 *)
(***************************************************************************)
Columns ==
    {"Project_Name", "Facility", "State", "Coordinates", "Installed_Capacity",
     "Number_of_Units"}

ValidCoordinates == <<"40.0", ",", "-95.0">>

RawRow(facility, state, coords, cap, units) ==
    [Project_Name |-> <<"Project">>, Facility |-> facility, State |-> state,
     Coordinates |-> coords, Installed_Capacity |-> cap, Number_of_Units |-> units]

\* records that differ in state and capacity (either may be missing)
StateCapRows ==
    {RawRow(<<"K-12 School">>, st, ValidCoordinates, cap, Some(1)) :
        st \in {<<"OK">>, <<"NY">>, <<>>}, cap \in {<<"1.5">>, <<"0.5">>, <<"N/A">>}}

\* records that differ in number of units and capacity (either may be missing)
UnitCapRows ==
    {RawRow(<<"K-12 School">>, <<"OK">>, ValidCoordinates, cap, un) :
        cap \in {<<"1.5">>, <<"0.5">>, <<"N/A">>}, un \in {Some(1), Some(2), None}}

\* records that differ in the coordinate string: well formed, one component,
\* three components, empty, a non-numeric component
GeoRows ==
    {RawRow(<<"K-12 School">>, <<"OK">>, co, <<"1.5">>, Some(1)) :
        co \in {ValidCoordinates, <<"40.0">>, <<"40.0", ",", "-95.0", ",", "7">>,
                <<>>, <<"40.0", ",", "N/A">>}}

\* records over four states and four facility types
TopRows ==
    {RawRow(<<"Community Center">>, <<"OK">>, ValidCoordinates, <<"0.5">>, Some(1)),
     RawRow(<<"Technical College">>, <<"NY">>, ValidCoordinates, <<"1.5">>, Some(2)),
     RawRow(<<"K-12 School">>, <<"KS">>, ValidCoordinates, <<"0.5">>, Some(2)),
     RawRow(<<"Library">>, <<"IA">>, ValidCoordinates, <<"1.5">>, Some(1)),
     RawRow(<<"K-12 School">>, <<"OK">>, ValidCoordinates, <<"1.5">>, Some(2))}

\* a two-record file whose header lacks one of the columns
HeaderRows ==
    <<RawRow(<<"K-12 School">>, <<"OK">>, ValidCoordinates, <<"1.5">>, Some(1)),
      RawRow(<<"Library">>, <<"NY">>, ValidCoordinates, <<"0.5">>, Some(2))>>

CsvFiles ==
    {[header |-> Columns, rows |-> r] :
        r \in NonEmptySeqs(StateCapRows, MaxRows) \cup NonEmptySeqs(UnitCapRows, MaxRows)
              \cup NonEmptySeqs(GeoRows, MaxGeoRows) \cup NonEmptySeqs(TopRows, MaxTopRows)}
    \cup {[header |-> Columns \ {c}, rows |-> HeaderRows] : c \in Columns}

NoCsv == [header |-> {}, rows |-> <<>>]

(***************************************************************************)
(* main.py: load_and_clean_data                                            *)
(***************************************************************************)
\* df['Coordinates'].str.split(',', expand=True): one column per field of the
\* longest split; an empty (NaN) cell splits to nothing
SplitWidth(rows) ==
    LET widths == {Len(StrSplit(rows[i].Coordinates)) :
                     i \in {j \in 1..Len(rows) : rows[j].Coordinates # <<>>}}
    IN  CHOOSE w \in widths : \A v \in widths : v <= w

\* field k of the expanded split of one cell, as astype(float) leaves it:
\* NaN where the cell is empty or has fewer than k fields
ExpandedField(cell, k) ==
    IF cell = <<>> \/ Len(StrSplit(cell)) < k THEN None
    ELSE Some(NumeralValue[StrSplit(cell)[k][1]])

\* the statements of load_and_clean_data that raise: a missing column
\* (KeyError), the .str accessor on a column read as all-NaN (AttributeError),
\* astype(float) on a field that is no number (ValueError), and the assignment
\* of a frame that has not exactly two columns to the two new columns (ValueError)
LoadRaises(file) ==
    \/ "Coordinates" \notin file.header
    \/ \A i \in 1..Len(file.rows) : file.rows[i].Coordinates = <<>>
    \/ \E i \in 1..Len(file.rows) :
          /\ file.rows[i].Coordinates # <<>>
          /\ \E k \in 1..Len(StrSplit(file.rows[i].Coordinates)) :
                ~FloatParses(StrSplit(file.rows[i].Coordinates)[k])
    \/ SplitWidth(file.rows) # 2
    \/ "Installed_Capacity" \notin file.header

CleanRow(r) ==
    [Project_Name |-> r.Project_Name, Facility |-> r.Facility, State |-> r.State,
     Coordinates |-> r.Coordinates,
     Latitude |-> ExpandedField(r.Coordinates, 1),
     Longitude |-> ExpandedField(r.Coordinates, 2),
     Installed_Capacity |-> ToNumericCoerce(r.Installed_Capacity),
     Number_of_Units |-> r.Number_of_Units]

CleanTable(file) ==
    [header |-> file.header \cup {"Latitude", "Longitude"},
     rows |-> [i \in 1..Len(file.rows) |-> CleanRow(file.rows[i])]]

load_and_clean_data ==
    /\ prog = "main"
    /\ pc = "load"
    /\ IF LoadRaises(csv)
       THEN /\ pc' = "aborted"
            /\ failed' = "load"
            /\ df' = df
       ELSE /\ pc' = "summary"
            /\ failed' = failed
            /\ df' = Some(CleanTable(csv))
    /\ UNCHANGED <<prog, csv, stats_summary, fig, map_viz, analysis_results, report,
                   summary, printed, artifacts>>

(***************************************************************************)
(* pandas building blocks used by the aggregation steps.                   *)
(***************************************************************************)
\* the distinct elements of a sequence, in order of first appearance
RECURSIVE UniqueFrom(_, _)
UniqueFrom(s, seen) ==
    IF s = <<>> THEN seen
    ELSE IF Head(s) \in Range(seen) THEN UniqueFrom(Tail(s), seen)
         ELSE UniqueFrom(Tail(s), Append(seen, Head(s)))

Unique(s) == UniqueFrom(s, <<>>)

CountOf(s, v) == Cardinality({i \in 1..Len(s) : s[i] = v})

\* Series.nunique(): distinct values, NaN not counted
NUnique(col) == Cardinality(Range(DropNa(col)))

\* InsertDesc with the comparison turned round: an ascending sort
RECURSIVE InsertAsc(_, _)
InsertAsc(x, s) ==
    IF s = <<>> THEN <<x>>
    ELSE IF Head(s).val <= x.val THEN <<Head(s)>> \o InsertAsc(x, Tail(s))
         ELSE <<x>> \o s

\* a stable sort of [key, val] entries by descending val
RECURSIVE InsertDesc(_, _)
InsertDesc(x, s) ==
    IF s = <<>> THEN <<x>>
    ELSE IF Head(s).val >= x.val THEN <<Head(s)>> \o InsertDesc(x, Tail(s))
         ELSE <<x>> \o s

RECURSIVE SortDesc(_)
SortDesc(s) ==
    IF s = <<>> THEN <<>>
    ELSE InsertDesc(s[Len(s)], SortDesc(SubSeq(s, 1, Len(s) - 1)))

\* Series.value_counts(): one entry per distinct non-missing value with its
\* number of occurrences, most frequent first
ValueCounts(col) ==
    LET present == DropNa(col)
        keys == Unique(present)
    IN  SortDesc([i \in 1..Len(keys) |-> [key |-> keys[i], val |-> CountOf(present, keys[i])]])

\* Series.head(n)
HeadN(s, n) == SubSeq(s, 1, IF Len(s) < n THEN Len(s) ELSE n)

\* Series.sum(): NaN skipped, 0 for no values
SumSkipNa(col) == SumSeq(DropNa(col))

\* a mean that divides by the number of rows instead of the number of values
MeanOverAllRows(col) ==
    IF DropNa(col) = <<>> THEN None
    ELSE Some([num |-> SumSeq(DropNa(col)), den |-> Len(col)])

\* Series.mean(): the sum of the present values over their number, NaN when
\* there is none; kept as the exact fraction num/den
MeanSkipNa(col) ==
    IF DropNa(col) = <<>> THEN None
    ELSE Some([num |-> SumSeq(DropNa(col)), den |-> Len(DropNa(col))])

\* the order Python gives the labels that occur (groupby sorts its keys)
LabelOrder ==
    <<"Community Center", "IA", "K-12 School", "KS", "Library", "NY", "OK", "TX",
      "Technical College">>

\* df.groupby(key)['Installed_Capacity'].agg(['sum', 'mean', 'count']): one
\* group per distinct non-missing key (a NaN key forms no group), in key order
GroupByCapacity(rows, key) ==
    LET keys == SelectSeq(LabelOrder, LAMBDA l : \E i \in 1..Len(rows) : rows[i][key] = <<l>>)
        caps(l) == Column(SelectSeq(rows, LAMBDA r : r[key] = <<l>>), "Installed_Capacity")
    IN  [i \in 1..Len(keys) |->
            [key |-> keys[i], sum |-> SumSkipNa(caps(keys[i])),
             mean |-> MeanSkipNa(caps(keys[i])), count |-> Len(DropNa(caps(keys[i])))]]

(***************************************************************************)
(* main.py: generate_statistical_summary                                   *)
(***************************************************************************)
SummaryRaises(t) == "State" \notin t.header \/ "Facility" \notin t.header

\* describe() is kept to its count, min and max
Describe(col) ==
    LET v == DropNa(col)
    IN  [count |-> Len(v),
         min |-> IF v = <<>> THEN None ELSE Some(CHOOSE m \in Range(v) : \A w \in Range(v) : m <= w),
         max |-> IF v = <<>> THEN None ELSE Some(CHOOSE m \in Range(v) : \A w \in Range(v) : w <= m)]

StatsSummary(t) ==
    [total_projects |-> Len(t.rows),
     total_states |-> NUnique(Column(t.rows, "State")),
     total_capacity |-> SumSkipNa(Column(t.rows, "Installed_Capacity")),
     avg_capacity |-> MeanSkipNa(Column(t.rows, "Installed_Capacity")),
     capacity_stats |-> Describe(Column(t.rows, "Installed_Capacity")),
     state_counts |-> ValueCounts(Column(t.rows, "State")),
     facility_counts |-> ValueCounts(Column(t.rows, "Facility"))]

generate_statistical_summary ==
    /\ prog = "main"
    /\ pc = "summary"
    /\ IF SummaryRaises(df[1])
       THEN /\ pc' = "aborted"
            /\ failed' = "summary"
            /\ stats_summary' = stats_summary
       ELSE /\ pc' = "visualize"
            /\ failed' = failed
            /\ stats_summary' = Some(StatsSummary(df[1]))
    /\ UNCHANGED <<prog, csv, df, fig, map_viz, analysis_results, report, summary,
                   printed, artifacts>>

(***************************************************************************)
(* main.py: create_visualizations                                          *)
(***************************************************************************)
\* the scatter plot names a column the frame lacks (the other three panels
\* read columns the summary has already read)
VisualizationsRaise(t) == "Number_of_Units" \notin t.header

Figure(t) ==
    [state_order |-> [i \in 1..Len(ValueCounts(Column(t.rows, "State"))) |->
                         ValueCounts(Column(t.rows, "State"))[i].key],
     capacity_hist |-> DropNa(Column(t.rows, "Installed_Capacity")),
     facility_order |-> [i \in 1..Len(ValueCounts(Column(t.rows, "Facility"))) |->
                            ValueCounts(Column(t.rows, "Facility"))[i].key],
     scatter |-> [i \in 1..Len(t.rows) |->
                     <<t.rows[i].Number_of_Units, t.rows[i].Installed_Capacity>>]]

\* create_visualizations that also writes the figure file, as
\* analyze_wind_data of script.py does
create_visualizations_and_save ==
    /\ prog = "main"
    /\ pc = "visualize"
    /\ IF VisualizationsRaise(df[1])
       THEN /\ pc' = "aborted"
            /\ failed' = "visualize"
            /\ fig' = fig
            /\ artifacts' = artifacts
       ELSE /\ pc' = "map"
            /\ failed' = failed
            /\ fig' = Some(Figure(df[1]))
            /\ artifacts' = artifacts \cup {"wind_analysis_plots.png"}
    /\ UNCHANGED <<prog, csv, df, stats_summary, map_viz, analysis_results, report,
                   summary, printed>>

create_visualizations ==
    /\ prog = "main"
    /\ pc = "visualize"
    /\ IF VisualizationsRaise(df[1])
       THEN /\ pc' = "aborted"
            /\ failed' = "visualize"
            /\ fig' = fig
       ELSE /\ pc' = "map"
            /\ failed' = failed
            /\ fig' = Some(Figure(df[1]))
    /\ UNCHANGED <<prog, csv, df, stats_summary, map_viz, analysis_results, report,
                   summary, printed, artifacts>>

(***************************************************************************)
(* main.py: create_map                                                     *)
(***************************************************************************)
\* folium validates every location it is given and raises ValueError on a NaN
LocationRaises(loc) == IsNone(loc[1]) \/ IsNone(loc[2])

MapCenter(t) ==
    <<MeanSkipNa(Column(t.rows, "Latitude")), MeanSkipNa(Column(t.rows, "Longitude"))>>

CircleMarker(row) ==
    [location |-> <<row.Latitude, row.Longitude>>,
     popup |-> <<row.Project_Name, row.Facility, row.Installed_Capacity>>]

\* folium.Map on the mean location, then one CircleMarker per row of iterrows();
\* the popup reads row['Project_Name']
MapRaises(t) ==
    \/ LocationRaises(MapCenter(t))
    \/ "Project_Name" \notin t.header
    \/ \E i \in 1..Len(t.rows) : LocationRaises(<<t.rows[i].Latitude, t.rows[i].Longitude>>)

MapOf(t) ==
    [location |-> MapCenter(t),
     markers |-> [i \in 1..Len(t.rows) |-> CircleMarker(t.rows[i])]]

\* create_map called before create_visualizations instead of after it
create_map_before_chart ==
    /\ prog = "main"
    /\ pc = "visualize"
    /\ IF MapRaises(df[1])
       THEN /\ pc' = "aborted"
            /\ failed' = "map"
            /\ map_viz' = map_viz
       ELSE /\ pc' = "analysis"
            /\ failed' = failed
            /\ map_viz' = Some(MapOf(df[1]))
    /\ UNCHANGED <<prog, csv, df, stats_summary, fig, analysis_results, report,
                   summary, printed, artifacts>>

create_map ==
    /\ prog = "main"
    /\ pc = "map"
    /\ IF MapRaises(df[1])
       THEN /\ pc' = "aborted"
            /\ failed' = "map"
            /\ map_viz' = map_viz
       ELSE /\ pc' = "analysis"
            /\ failed' = failed
            /\ map_viz' = Some(MapOf(df[1]))
    /\ UNCHANGED <<prog, csv, df, stats_summary, fig, analysis_results, report,
                   summary, printed, artifacts>>

(***************************************************************************)
(* main.py: perform_analysis                                               *)
(***************************************************************************)
Products(x, y) == [i \in 1..Len(x) |-> x[i] * y[i]]

NanCorrelation == [kind |-> "nan", cov |-> 0, dx |-> 0, dy |-> 0]

\* scipy.stats.pearsonr(x, y)[0] on the two whole columns: ValueError for fewer
\* than two observations; NaN when an input holds a NaN or is constant;
\* otherwise r = cov / sqrt(dx * dy), kept as the three integers
\*   cov = n*Sxy - Sx*Sy,  dx = n*Sxx - Sx^2,  dy = n*Syy - Sy^2
PearsonRaises(xs, ys) == Len(xs) < 2

PearsonR(xs, ys) ==
    IF \E i \in 1..Len(xs) : IsNone(xs[i]) \/ IsNone(ys[i]) THEN NanCorrelation
    ELSE LET x == DropNa(xs)
             y == DropNa(ys)
             n == Len(x)
             dx == n * SumSeq(Products(x, x)) - SumSeq(x) * SumSeq(x)
             dy == n * SumSeq(Products(y, y)) - SumSeq(y) * SumSeq(y)
         IN  IF dx = 0 \/ dy = 0 THEN NanCorrelation
             ELSE [kind |-> "num", cov |-> n * SumSeq(Products(x, y)) - SumSeq(x) * SumSeq(y),
                   dx |-> dx, dy |-> dy]

AnalysisRaises(t) ==
    PearsonRaises(Column(t.rows, "Number_of_Units"), Column(t.rows, "Installed_Capacity"))

AnalysisResults(t) ==
    [capacity_by_state |-> GroupByCapacity(t.rows, "State"),
     capacity_by_facility |-> GroupByCapacity(t.rows, "Facility"),
     capacity_units_correlation |->
        PearsonR(Column(t.rows, "Number_of_Units"), Column(t.rows, "Installed_Capacity"))]

perform_analysis ==
    /\ prog = "main"
    /\ pc = "analysis"
    /\ IF AnalysisRaises(df[1])
       THEN /\ pc' = "aborted"
            /\ failed' = "analysis"
            /\ analysis_results' = analysis_results
       ELSE /\ pc' = "report"
            /\ failed' = failed
            /\ analysis_results' = Some(AnalysisResults(df[1]))
    /\ UNCHANGED <<prog, csv, df, stats_summary, fig, map_viz, report, summary,
                   printed, artifacts>>

(***************************************************************************)
(* Number formatting (format spec ".2f").                                  *)
(***************************************************************************)
CapacityUnitsPerMW == 10

ScriptUnitsPerMW == 1000000

\* two decimals by truncation instead of rounding
Format2fTruncate(num, den) ==
    IF num < 0 THEN -((100 * Abs(num)) \div den) ELSE (100 * Abs(num)) \div den

\* num/den rounded to two decimals, as the integer number of hundredths;
\* an exact half rounds to the even neighbour
Format2f(num, den) ==
    LET q == (100 * Abs(num)) \div den
        r == (100 * Abs(num)) % den
        m == IF 2 * r < den THEN q
             ELSE IF 2 * r > den THEN q + 1
             ELSE IF q % 2 = 0 THEN q ELSE q + 1
    IN  IF num < 0 THEN -m ELSE m

\* a float that may be NaN: "nan" is printed for NaN
FormatFloat(opt, unitsPerMW) ==
    IF IsNone(opt) THEN [kind |-> "nan", val |-> 0]
    ELSE [kind |-> "num", val |-> Format2f(opt[1].num, opt[1].den * unitsPerMW)]

\* the correlation to two decimals: the k with |100*r - k| <= 1/2
FormatCorrelation(c) ==
    IF c.kind = "nan" THEN [kind |-> "nan", val |-> 0]
    ELSE LET a == 200 * Abs(c.cov)
             d == c.dx * c.dy
             fits(k) == (k = 0 \/ (2 * k - 1) * (2 * k - 1) * d <= a * a)
                        /\ a * a <= (2 * k + 1) * (2 * k + 1) * d
             ks == {k \in 0..100 : fits(k)}
             m == IF Cardinality(ks) = 1 THEN CHOOSE k \in ks : TRUE
                  ELSE CHOOSE k \in ks : k % 2 = 0
         IN  [kind |-> "num", val |-> IF c.cov < 0 THEN -m ELSE m]

(***************************************************************************)
(* main.py: generate_report                                                *)
(***************************************************************************)
StateSums(a) ==
    [i \in 1..Len(a.capacity_by_state) |->
        [key |-> a.capacity_by_state[i].key, val |-> a.capacity_by_state[i].sum]]

Report(st, a) ==
    [total_projects |-> st.total_projects,
     total_states |-> st.total_states,
     total_capacity |-> Format2f(st.total_capacity, CapacityUnitsPerMW),
     top_states |-> HeadN(st.state_counts, 3),
     top_facilities |-> HeadN(st.facility_counts, 3),
     avg_capacity |-> FormatFloat(st.avg_capacity, CapacityUnitsPerMW),
     correlation |-> FormatCorrelation(a.capacity_units_correlation),
     top_capacity_states |-> HeadN(SortDesc(StateSums(a)), 3)]

generate_report ==
    /\ prog = "main"
    /\ pc = "report"
    /\ report' = Some(Report(stats_summary[1], analysis_results[1]))
    /\ pc' = "returned"
    /\ UNCHANGED <<prog, failed, csv, df, stats_summary, fig, map_viz,
                   analysis_results, summary, printed, artifacts>>

(***************************************************************************)
(* main.py: the __main__ block after main() has returned                   *)
(***************************************************************************)
savefig ==
    /\ prog = "main"
    /\ pc = "returned"
    /\ artifacts' = artifacts \cup {"wind_analysis_plots.png"}
    /\ pc' = "save_map"
    /\ UNCHANGED <<prog, failed, csv, df, stats_summary, fig, map_viz,
                   analysis_results, report, summary, printed>>

save_map ==
    /\ prog = "main"
    /\ pc = "save_map"
    /\ artifacts' = artifacts \cup {"wind_installations_map.html"}
    /\ pc' = "write_report"
    /\ UNCHANGED <<prog, failed, csv, df, stats_summary, fig, map_viz,
                   analysis_results, report, summary, printed>>

write_report ==
    /\ prog = "main"
    /\ pc = "write_report"
    /\ artifacts' = artifacts \cup {"analysis_report.txt"}
    /\ pc' = "done"
    /\ UNCHANGED <<prog, failed, csv, df, stats_summary, fig, map_viz,
                   analysis_results, report, summary, printed>>

(***************************************************************************)
(* script.py                                                               *)
(***************************************************************************)
ScriptRow(id, name, facility, state, cap, units) ==
    [Turbine_ID |-> <<id>>, Project_Name |-> <<name>>, Facility |-> <<facility>>,
     State |-> <<state>>, Installed_Capacity |-> <<cap>>, Number_of_Units |-> <<units>>]

\* the literal table, capacities in millionths of a MW
data ==
    <<ScriptRow("T001", "Project_1", "Community Center", "OK", 1733693, 1),
      ScriptRow("T002", "Project_2", "Technical College", "NY", 1374243, 4),
      ScriptRow("T003", "Project_3", "K-12 School", "KS", 1174680, 4),
      ScriptRow("T004", "Project_4", "Community Center", "IA", 1426943, 2),
      ScriptRow("T005", "Project_5", "Community Center", "OK", 1522472, 4),
      ScriptRow("T006", "Project_6", "Technical College", "IA", 294048, 4),
      ScriptRow("T007", "Project_7", "K-12 School", "TX", 987171, 2),
      ScriptRow("T008", "Project_8", "K-12 School", "KS", 681184, 3)>>

DataFrame ==
    /\ prog = "script"
    /\ pc = "dataframe"
    /\ df' = Some([header |-> DOMAIN data[1], rows |-> data])
    /\ pc' = "plot"
    /\ UNCHANGED <<prog, failed, csv, stats_summary, fig, map_viz, analysis_results,
                   report, summary, printed, artifacts>>

\* analyze_wind_data, first part: the figure and its four panels
analyze_plot ==
    /\ prog = "script"
    /\ pc = "plot"
    /\ fig' = Some([state_counts |-> ValueCounts(Column(df[1].rows, "State")),
                    facility_counts |-> ValueCounts(Column(df[1].rows, "Facility")),
                    capacity_hist |-> DropNa(Column(df[1].rows, "Installed_Capacity")),
                    scatter |-> [i \in 1..Len(df[1].rows) |->
                                    <<df[1].rows[i].Number_of_Units,
                                      df[1].rows[i].Installed_Capacity>>]])
    /\ pc' = "savefig"
    /\ UNCHANGED <<prog, failed, csv, df, stats_summary, map_viz, analysis_results,
                   report, summary, printed, artifacts>>

\* analyze_wind_data: plt.savefig('wind_analysis.png')
analyze_savefig ==
    /\ prog = "script"
    /\ pc = "savefig"
    /\ artifacts' = artifacts \cup {"wind_analysis.png"}
    /\ pc' = "summarize"
    /\ UNCHANGED <<prog, failed, csv, df, stats_summary, fig, map_viz,
                   analysis_results, report, summary, printed>>

Summary(t) ==
    [total_projects |-> Len(t.rows),
     states_count |-> NUnique(Column(t.rows, "State")),
     total_capacity |-> SumSkipNa(Column(t.rows, "Installed_Capacity")),
     average_capacity |-> MeanSkipNa(Column(t.rows, "Installed_Capacity")),
     state_distribution |-> GroupByCapacity(t.rows, "State"),
     facility_distribution |-> GroupByCapacity(t.rows, "Facility")]

\* analyze_wind_data, last part: the summary dictionary, returned
analyze_summary ==
    /\ prog = "script"
    /\ pc = "summarize"
    /\ summary' = Some(Summary(df[1]))
    /\ pc' = "print"
    /\ UNCHANGED <<prog, failed, csv, df, stats_summary, fig, map_viz,
                   analysis_results, report, printed, artifacts>>

\* the printed figures: count, states, total and average to two decimals
\* (in hundredths of a MW), then the two group tables
PrintedLines(su) ==
    [total_projects |-> su.total_projects,
     states |-> su.states_count,
     total_capacity |-> Format2f(su.total_capacity, ScriptUnitsPerMW),
     average_capacity |-> FormatFloat(su.average_capacity, ScriptUnitsPerMW),
     state_distribution |-> su.state_distribution,
     facility_distribution |-> su.facility_distribution]

print_results ==
    /\ prog = "script"
    /\ pc = "print"
    /\ printed' = Some(PrintedLines(summary[1]))
    /\ pc' = "done"
    /\ UNCHANGED <<prog, failed, csv, df, stats_summary, fig, map_viz,
                   analysis_results, report, summary, artifacts>>

(***************************************************************************)
(* Specification.                                                          *)
(***************************************************************************)
Init ==
    /\ prog \in {"main", "script"}
    /\ IF prog = "main"
       THEN csv \in CsvFiles /\ pc = "load"
       ELSE csv = NoCsv /\ pc = "dataframe"
    /\ failed = ""
    /\ df = None
    /\ stats_summary = None
    /\ fig = None
    /\ map_viz = None
    /\ analysis_results = None
    /\ report = None
    /\ summary = None
    /\ printed = None
    /\ artifacts = {}

Next ==
    \/ load_and_clean_data
    \/ generate_statistical_summary
    \/ create_visualizations
    \/ create_map
    \/ perform_analysis
    \/ generate_report
    \/ savefig
    \/ save_map
    \/ write_report
    \/ DataFrame
    \/ analyze_plot
    \/ analyze_savefig
    \/ analyze_summary
    \/ print_results

Spec == Init /\ [][Next]_vars

(***************************************************************************)
(* Properties.                                                             *)
(***************************************************************************)
\* the rows of a cleaned table that have both a unit count and a capacity
CompleteRows(t) ==
    SelectSeq(t.rows, LAMBDA r : ~IsNone(r.Number_of_Units) /\ ~IsNone(r.Installed_Capacity))

\* the correlation of the table restricted to its complete rows
CompleteCorrelation(t) ==
    PearsonR(Column(CompleteRows(t), "Number_of_Units"),
             Column(CompleteRows(t), "Installed_Capacity"))

\* fewer than two complete rows, or a series of the complete rows is constant
CorrelationUndefined(t) ==
    Len(CompleteRows(t)) < 2 \/ CompleteCorrelation(t).kind = "nan"

\* the file has every column and every coordinate cell is "number,number"
WellFormedFile(file) ==
    /\ file.header = Columns
    /\ \A i \in 1..Len(file.rows) :
          /\ Len(StrSplit(file.rows[i].Coordinates)) = 2
          /\ \A k \in 1..2 : FloatParses(StrSplit(file.rows[i].Coordinates)[k])

UnparseableCapacityRows(file) ==
    {i \in 1..Len(file.rows) : file.rows[i].Installed_Capacity = <<"N/A">>}

\* C1: in every run of main.py that reaches perform_analysis, the per-state
\* group sums of capacity_by_state add up to total_capacity of the summary,
\* also when some record has no State.
C1_GroupSumsEqualTotal ==
    (prog = "main" /\ analysis_results # None) =>
        SumSeq([i \in 1..Len(analysis_results[1].capacity_by_state) |->
                   analysis_results[1].capacity_by_state[i].sum])
            = stats_summary[1].total_capacity

C3_CorrelationOverCompleteRecords ==
    (prog = "main" /\ analysis_results # None
       /\ Len(CompleteRows(df[1])) >= 2 /\ CompleteCorrelation(df[1]).kind = "num") =>
        analysis_results[1].capacity_units_correlation = CompleteCorrelation(df[1])

\* C4: whenever the correlation is undefined, perform_analysis does not abort
\* the run and the report says "undefined" in the correlation position.
C4_UndefinedCorrelationReported ==
    (prog = "main" /\ df # None /\ CorrelationUndefined(df[1])) =>
        /\ ~(pc = "aborted" /\ failed = "analysis")
        /\ report # None => report[1].correlation.kind = "undefined"

\* the groups of a label column: the distinct labels that occur
GroupKeys(t, col) == {t.rows[i][col][1] : i \in {j \in 1..Len(t.rows) : t.rows[j][col] # <<>>}}

GroupCount(t, col, l) == Cardinality({i \in 1..Len(t.rows) : t.rows[i][col] = <<l>>})

GroupCapacity(t, col, l) ==
    SumSeq([i \in 1..Len(t.rows) |->
               IF t.rows[i][col] = <<l>> /\ t.rows[i].Installed_Capacity # <<>>
               THEN t.rows[i].Installed_Capacity[1] ELSE 0])

\* the list holds min(3, number of groups) distinct groups with their keys'
\* values, in descending order, and no group left out has a greater value
IsTopThree(list, keys, value(_)) ==
    /\ Len(list) = (IF Cardinality(keys) < 3 THEN Cardinality(keys) ELSE 3)
    /\ \A i \in 1..Len(list) : list[i].key \in keys /\ list[i].val = value(list[i].key)
    /\ \A i, j \in 1..Len(list) : i < j => (list[i].val >= list[j].val /\ list[i].key # list[j].key)
    /\ \A i \in 1..Len(list) :
          \A l \in keys \ {list[j].key : j \in 1..Len(list)} : list[i].val >= value(l)

\* C5: each of the three top-3 lists of the report (states by count, facility
\* types by count, states by total capacity) has min(3, number of groups)
\* entries, is in descending order of its key, and every listed group's key is
\* at least that of every group not listed.
C5_TopThreeLists ==
    (prog = "main" /\ report # None) =>
        /\ IsTopThree(report[1].top_states, GroupKeys(df[1], "State"),
                      LAMBDA l : GroupCount(df[1], "State", l))
        /\ IsTopThree(report[1].top_facilities, GroupKeys(df[1], "Facility"),
                      LAMBDA l : GroupCount(df[1], "Facility", l))
        /\ IsTopThree(report[1].top_capacity_states, GroupKeys(df[1], "State"),
                      LAMBDA l : GroupCapacity(df[1], "State", l))

\* C5 witness: a report over four states and four facility types whose
\* counts and capacity sums are not all equal
C5_Witness ==
    /\ prog = "main"
    /\ report # None
    /\ Cardinality(GroupKeys(df[1], "State")) = 4
    /\ Cardinality(GroupKeys(df[1], "Facility")) = 4
    /\ report[1].top_states[1].val = 2
    /\ report[1].top_facilities[1].val = 2
    /\ report[1].top_capacity_states[1].val > report[1].top_capacity_states[3].val

\* C6: load_and_clean_data returns a table only when the Coordinates column
\* is present and every record's coordinate string splits into exactly two
\* components.
C6_MalformedCoordinatesFail ==
    (prog = "main" /\ df # None) =>
        /\ "Coordinates" \in csv.header
        /\ \A i \in 1..Len(csv.rows) :
              csv.rows[i].Coordinates # <<>> => Len(StrSplit(csv.rows[i].Coordinates)) = 2

\* C7: create_map never fails on a cleaned table that has the columns it
\* reads, and the map holds one marker for each record with a latitude and a
\* longitude and none for the others.
C7_MapSkipsInvalidCoordinates ==
    (prog = "main" /\ df # None /\ "Project_Name" \in df[1].header) =>
        /\ ~(pc = "aborted" /\ failed = "map")
        /\ map_viz # None =>
              map_viz[1].markers =
                 [i \in 1..Len(SelectSeq(df[1].rows, LAMBDA r : ~IsNone(r.Latitude) /\ ~IsNone(r.Longitude))) |->
                     CircleMarker(SelectSeq(df[1].rows, LAMBDA r : ~IsNone(r.Latitude) /\ ~IsNone(r.Longitude))[i])]

\* C8 as claimed: the script prints count 8, 5 distinct states, total capacity
\* 9.22 and average capacity 1.15.
C8_ExampleSummaryAsClaimed ==
    (prog = "script" /\ printed # None) =>
        /\ printed[1].total_projects = 8
        /\ printed[1].states = 5
        /\ printed[1].total_capacity = 922
        /\ printed[1].average_capacity = [kind |-> "num", val |-> 115]

\* C8 as amended: the script prints count 8, 5 distinct states, total capacity
\* 9.19 and average capacity 1.15.
C8_ExampleSummary ==
    (prog = "script" /\ printed # None) =>
        /\ printed[1].total_projects = 8
        /\ printed[1].states = 5
        /\ printed[1].total_capacity = 919
        /\ printed[1].average_capacity = [kind |-> "num", val |-> 115]

\* C8 witness: the script has printed its summary
C8_Witness == prog = "script" /\ pc = "done" /\ printed # None

\* C9 as claimed: once any rendering step has run, every aggregation step of
\* the program has completed.
C9_AggregationBeforeRendering ==
    /\ (prog = "main" /\ (fig # None \/ map_viz # None \/ report # None \/ artifacts # {})) =>
          (stats_summary # None /\ analysis_results # None)
    /\ (prog = "script" /\ (fig # None \/ artifacts # {})) => summary # None

\* C9 as amended: the steps complete in program order.  main.py: load/clean,
\* summary, chart, map, analysis, report, artifact writes; script.py: table,
\* chart, figure file, summary, printing.  No step has completed unless the
\* step before it has.
C9_ProgramOrder ==
    /\ prog = "main" =>
          /\ stats_summary # None => df # None
          /\ fig # None => stats_summary # None
          /\ map_viz # None => fig # None
          /\ analysis_results # None => map_viz # None
          /\ report # None => (analysis_results # None /\ stats_summary # None)
          /\ artifacts # {} => report # None
          /\ summary = None /\ printed = None
    /\ prog = "script" =>
          /\ fig # None => df # None
          /\ artifacts # {} => fig # None
          /\ summary # None => artifacts # {}
          /\ printed # None => summary # None
          /\ stats_summary = None /\ map_viz = None /\ analysis_results = None /\ report = None

\* C9 witness: in main.py chart and map exist while perform_analysis has not run
C9_Witness ==
    prog = "main" /\ fig # None /\ map_viz # None /\ analysis_results = None /\ pc = "analysis"

\* C10: in main.py an artifact is written only after main() has returned with
\* every stage completed; a run that a stage aborts has written no artifact.
C10_NoArtifactBeforeMainReturns ==
    prog = "main" =>
        /\ pc = "aborted" => artifacts = {}
        /\ artifacts # {} =>
              /\ pc \in {"save_map", "write_report", "done"}
              /\ df # None /\ stats_summary # None /\ fig # None /\ map_viz # None
              /\ analysis_results # None /\ report # None

\* C10 witness: the run aborts in create_map, after the chart was created
C10_Witness ==
    prog = "main" /\ pc = "aborted" /\ failed = "map" /\ fig # None /\ artifacts = {}

====
